---------------------------- MODULE Spec2Model ----------------------------
(***************************************************************************)
(* Model of two applications of the retro desktop:                         *)
(*   - the paint canvas (PaintCanvas: undo/redo history, pointer gestures, *)
(*     bucket fill, text, clear, import, paste), src/unnamed/part_005;     *)
(*   - the soundboard (App: boards, slots, recording, playback, import /   *)
(*     export / reload), src/unnamed/part_000.                             *)
(* Pixel coordinates and slot indices are 0-based as in the source; a      *)
(* JavaScript array a is a function on 0..n-1 for images and a sequence    *)
(* (1..n) for the history and the board list, so a[i] of the source is     *)
(* a[i + 1] here for those.                                                *)
(***************************************************************************)
EXTENDS Integers, Sequences, FiniteSets, TLC

Null == "null"

\* A null image / a null point (refs that hold no ImageData / no Point).
NoImage == << >>

NoPoint == << >>

\* selection === null
NoSelection == [none |-> TRUE]

----------------------------------------------------------------------------
(* Paint canvas: pixels and images                                         *)

\* A pixel is one of three RGBA values: transparent black (a fresh or erased
\* canvas), opaque white, opaque black.
Colours == {"T", "W", "B"}

Red(c) == IF c = "W" THEN 255 ELSE 0

HistoryCap == 50

VARIABLES
  cw, ch,          \* canvas.width, canvas.height
  canvas,          \* the pixels of the canvas: [0..cw*ch-1 -> Colours]
  history,         \* historyRef.current
  historyIndex,    \* historyIndexRef.current
  isDrawing,       \* isDrawing.current
  startPointRef,   \* startPointRef.current
  lastImageRef,    \* lastImageRef.current
  selectedTool,    \* the selectedTool prop
  patternRef,      \* patternRef.current: Null until the pattern image loaded
  gco,             \* context.globalCompositeOperation
  strokeStyle,     \* context.strokeStyle: "default", "white" or a pattern
  pathPts,         \* pixels covered by the context's current path
  pathLast,        \* last point of the context's current path
  isTyping,        \* isTyping state
  textPosition,    \* textPosition state
  selection,       \* selection state: NoSelection or the rectangle
  isDraggingSelection,  \* isDraggingSelection state
  dragStartRef,    \* dragStartRef.current
  steps,           \* number of handlers run (bounds the gesture model)
  probe            \* observer of gestures: canvas before the current gesture
                   \* and before the current run of strokes, strokes and
                   \* undos counted since

pvars == <<cw, ch, canvas, history, historyIndex, isDrawing, startPointRef,
           lastImageRef, selectedTool, patternRef, gco, strokeStyle,
           pathPts, pathLast, isTyping, textPosition, selection,
           isDraggingSelection, dragStartRef, steps, probe>>



Shapes == {"line", "rectangle", "oval"}

Tools == {"pencil", "eraser", "bucket", "text"} \cup Shapes

Patterns == {"white", "black"}

Events == {"mouse", "touch"}

Pixels(w, h) == 0 .. (w * h - 1)

Points(w, h) == (0 .. (w - 1)) \X (0 .. (h - 1))

Idx(w, pt) == pt[2] * w + pt[1]

\* The pattern tile repeated over a w x h canvas (tempContext.fillRect with
\* the pattern, then getImageData).
PatternData(p, w, h) == [k \in Pixels(w, h) |-> IF p = "white" THEN "W" ELSE "B"]

Solid(c, w, h) == [k \in Pixels(w, h) |-> c]

\* Colour a stroke or fill of the given style leaves on pixel k.
StyleColour(style, k, w, h) ==
  IF style = "default" THEN "B"
  ELSE IF style = "white" THEN "W"
  ELSE PatternData(style, w, h)[k]

\* Result of compositing an opaque source colour src onto a pixel under the
\* context's globalCompositeOperation.
Composite(op, src) == IF op = "destination-out" THEN "T" ELSE src

\* Lattice points of the segment from a to b.
LinePixels(w, h, a, b) ==
  { Idx(w, q) : q \in { r \in Points(w, h) :
      /\ (r[1] - a[1]) * (b[2] - a[2]) = (r[2] - a[2]) * (b[1] - a[1])
      /\ (r[1] - a[1]) * (r[1] - b[1]) <= 0
      /\ (r[2] - a[2]) * (r[2] - b[2]) <= 0 } }

Min(a, b) == IF a < b THEN a ELSE b

Max(a, b) == IF a > b THEN a ELSE b

\* Outline of the rectangle (or of the ellipse inscribed in it) spanned by
\* a and b: the pixels of its bounding box that lie on the box's border.
BoxOutline(w, h, a, b) ==
  LET x1 == Min(a[1], b[1])
      x2 == Max(a[1], b[1])
      y1 == Min(a[2], b[2])
      y2 == Max(a[2], b[2])
  IN { Idx(w, q) : q \in { r \in Points(w, h) :
         /\ r[1] \in x1 .. x2
         /\ r[2] \in y1 .. y2
         /\ (r[1] \in {x1, x2} \/ r[2] \in {y1, y2}) } }

ShapePixels(tool, w, h, a, b) ==
  IF tool = "line" THEN LinePixels(w, h, a, b) ELSE BoxOutline(w, h, a, b)

\* context.stroke() / fill of a pixel set with a style under the composite op.
PaintPixels(img, pts, style, op, w, h) ==
  [k \in DOMAIN img |->
     IF k \in pts THEN Composite(op, StyleColour(style, k, w, h)) ELSE img[k]]

----------------------------------------------------------------------------
(* History                                                                 *)

\* hasCanvasChanged: sizes differ, or some sampled byte differs.  The loop
\* steps i by 16 over the RGBA bytes, so it reads the red byte of every
\* fourth pixel.
HasCanvasChanged(prev, new) ==
  \/ DOMAIN prev # DOMAIN new
  \/ \E k \in DOMAIN prev : k % 4 = 0 /\ Red(prev[k]) # Red(new[k])

\* Array.prototype.slice(-n): the last n elements (all, when shorter).
SliceLast(s, n) == IF Len(s) <= n THEN s ELSE SubSeq(s, Len(s) - n + 1, Len(s))

\* saveToHistory on history h, cursor i and the canvas pixels img; the result
\* is the new history and cursor.
SaveToHistoryNoEvict(h, i, img) ==
  IF i >= 0 /\ ~HasCanvasChanged(h[i + 1], img)
  THEN [h |-> h, i |-> i]
  ELSE [h |-> Append(SubSeq(h, 1, i + 1), img), i |-> i + 1]

SaveToHistory(h, i, img) ==
  IF i >= 0 /\ ~HasCanvasChanged(h[i + 1], img)
  THEN [h |-> h, i |-> i]
  ELSE LET cut == SubSeq(h, 1, i + 1)
           capped == Len(cut) >= HistoryCap
           kept == IF capped THEN SliceLast(cut, HistoryCap - 1) ELSE cut
           idx == IF capped THEN Min(i, HistoryCap - 2) ELSE i
       IN [h |-> Append(kept, img), i |-> idx + 1]

----------------------------------------------------------------------------
(* Bucket fill                                                             *)

\* maxPixels = Math.floor(canvas.width * canvas.height * 0.8)
MaxFillPixels(w, h) == (w * h * 4) \div 5

RECURSIVE ExtendLeft(_, _, _, _, _)
ExtendLeft(px, w, y, x1, startC) ==
  IF x1 > 0 /\ px[y * w + (x1 - 1)] = startC
  THEN ExtendLeft(px, w, y, x1 - 1, startC)
  ELSE x1

RECURSIVE ExtendRight(_, _, _, _, _)
ExtendRight(px, w, y, x2, startC) ==
  IF x2 < w - 1 /\ px[y * w + (x2 + 1)] = startC
  THEN ExtendRight(px, w, y, x2 + 1, startC)
  ELSE x2

\* scanlines[scanlines.length - 1].rightX = x
SetTopRightX(st, x) == [st EXCEPT ![Len(st)].rightX = x]

\* The loop over x1..x2 that looks for runs of the start colour in row newY
\* and pushes one scanline per run.
RECURSIVE ScanRow(_, _, _, _, _, _, _, _, _)
ScanRow(px, w, newY, x, x2, dir, startC, st, inRange) ==
  IF x > x2
  THEN IF inRange THEN SetTopRightX(st, x2) ELSE st
  ELSE LET matchesNow == px[newY * w + x] = startC
       IN IF ~inRange /\ matchesNow
          THEN ScanRow(px, w, newY, x + 1, x2, dir, startC,
                       Append(st, [y |-> newY, leftX |-> x, rightX |-> x,
                                   direction |-> dir]), TRUE)
          ELSE IF inRange /\ ~matchesNow
          THEN ScanRow(px, w, newY, x + 1, x2, dir, startC,
                       SetTopRightX(st, x - 1), FALSE)
          ELSE ScanRow(px, w, newY, x + 1, x2, dir, startC, st, inRange)

\* The while loop over the scanline stack; the result is the pixel buffer.
RECURSIVE FillLoop(_, _, _, _, _, _, _)
FillLoop(px, w, h, pat, startC, st, filledPixels) ==
  IF Len(st) = 0 \/ filledPixels >= MaxFillPixels(w, h)
  THEN px
  ELSE LET top == st[Len(st)]
           rest == SubSeq(st, 1, Len(st) - 1)
           newY == top.y + top.direction
       IN IF newY < 0 \/ newY >= h
          THEN FillLoop(px, w, h, pat, startC, rest, filledPixels)
          ELSE LET x1 == ExtendLeft(px, w, top.y, top.leftX, startC)
                   x2 == ExtendRight(px, w, top.y, top.rightX, startC)
                   row == { top.y * w + x : x \in x1 .. x2 }
                   px2 == [k \in DOMAIN px |->
                             IF k \in row THEN pat[k] ELSE px[k]]
                   st2 == ScanRow(px2, w, newY, x1, x2, top.direction,
                                  startC, rest, FALSE)
               IN FillLoop(px2, w, h, pat, startC, st2,
                           filledPixels + (x2 - x1 + 1))

\* floodFill(startX, startY) on pixel buffer px with the pattern pat drawn
\* over the whole canvas: the pixel buffer put back on the canvas, or NoImage
\* when the function returns early (nothing put back, no history save).
FloodFillPixels(px, w, h, pat, pt) ==
  IF px[Idx(w, pt)] = pat[Idx(w, pt)]
  THEN NoImage
  ELSE FillLoop(px, w, h, pat, px[Idx(w, pt)],
                << [y |-> pt[2], leftX |-> pt[1], rightX |-> pt[1],
                    direction |-> 1],
                   [y |-> pt[2], leftX |-> pt[1], rightX |-> pt[1],
                    direction |-> -1] >>, 0)

----------------------------------------------------------------------------
(* Paint canvas: handlers                                                  *)

hvars == <<canvas, history, historyIndex>>

gvars == <<isDrawing, startPointRef, lastImageRef, gco, strokeStyle, pathPts,
           pathLast>>

tvars == <<isTyping, textPosition>>

svars == <<selection, isDraggingSelection, dragStartRef>>

\* saveToHistory() called with the pixels img on the canvas.
SaveKeepRedo(img) ==
  IF historyIndex >= 0 /\ ~HasCanvasChanged(history[historyIndex + 1], img)
  THEN UNCHANGED <<history, historyIndex>>
  ELSE history' = Append(history, img) /\ historyIndex' = historyIndex + 1

Save(img) ==
  LET r == SaveToHistory(history, historyIndex, img)
  IN history' = r.h /\ historyIndex' = r.i

\* floodFill(x, y), with its putImageData and saveToHistory.
FloodFill(pt) ==
  IF patternRef = Null
  THEN UNCHANGED hvars
  ELSE LET px == FloodFillPixels(canvas, cw, ch,
                                 PatternData(patternRef, cw, ch), pt)
       IN IF px = NoImage
          THEN UNCHANGED hvars
          ELSE canvas' = px /\ Save(px)

\* The selectedTool prop changes (toolbar); the toolbar is not operated while
\* a pointer gesture is in progress on the canvas.
SetTool(t) ==
  /\ ~isDrawing
  /\ selectedTool' = t
  /\ UNCHANGED <<cw, ch, svars, hvars, gvars, tvars, patternRef>>

\* img.onload of the pattern effect: the pattern becomes the stroke and fill
\* style.
LoadPattern(p) ==
  /\ patternRef' = p
  /\ strokeStyle' = p
  /\ UNCHANGED <<cw, ch, svars, hvars, isDrawing, startPointRef, lastImageRef, gco,
                 pathPts, pathLast, tvars, selectedTool>>

\* startDrawing (mousedown / touchstart).
PointerDown(ev, pt) ==
  /\ UNCHANGED <<cw, ch, svars, selectedTool, patternRef>>
  /\ IF selectedTool = "bucket"
     THEN FloodFill(pt) /\ UNCHANGED <<gvars, tvars>>
     ELSE IF selectedTool = "text"
     THEN /\ textPosition' = IF ~isTyping THEN pt ELSE textPosition
          /\ isTyping' = TRUE
          /\ UNCHANGED <<hvars, gvars>>
     ELSE IF selectedTool \in Shapes
     THEN /\ lastImageRef' = canvas
          /\ startPointRef' = pt
          /\ isDrawing' = TRUE
          /\ UNCHANGED <<hvars, tvars, gco, strokeStyle, pathPts, pathLast>>
     ELSE /\ IF selectedTool = "eraser"
             THEN gco' = "destination-out" /\ strokeStyle' = "white"
             ELSE /\ gco' = "source-over"
                  /\ strokeStyle' = IF patternRef # Null THEN patternRef
                                    ELSE strokeStyle
          /\ pathPts' = {}
          /\ pathLast' = pt
          /\ isDrawing' = TRUE
          /\ UNCHANGED <<hvars, tvars, startPointRef, lastImageRef>>

\* draw (mousemove / touchmove).
PointerMove(ev, pt) ==
  /\ UNCHANGED <<cw, ch, svars, selectedTool, patternRef, tvars, isDrawing,
                 startPointRef, lastImageRef>>
  /\ IF ~isDrawing
     THEN UNCHANGED <<hvars, gco, strokeStyle, pathPts, pathLast>>
     ELSE IF /\ selectedTool \in Shapes
             /\ startPointRef # NoPoint
             /\ lastImageRef # NoImage
     THEN LET style == IF patternRef # Null THEN patternRef ELSE strokeStyle
              pts == ShapePixels(selectedTool, cw, ch, startPointRef, pt)
          IN /\ canvas' = PaintPixels(lastImageRef, pts, style,
                                      "source-over", cw, ch)
             /\ gco' = "source-over"
             /\ strokeStyle' = style
             /\ pathPts' = pts
             /\ pathLast' = pt
             /\ UNCHANGED <<history, historyIndex>>
     ELSE IF selectedTool \notin Shapes
     THEN LET seg == IF pathLast = NoPoint THEN {}
                     ELSE LinePixels(cw, ch, pathLast, pt)
              pts == pathPts \cup seg
              img == PaintPixels(canvas, pts, strokeStyle, gco, cw, ch)
          IN /\ canvas' = img
             /\ pathPts' = pts
             /\ pathLast' = pt
             /\ UNCHANGED <<gco, strokeStyle>>
             /\ IF ev = "touch" THEN Save(img)
                ELSE UNCHANGED <<history, historyIndex>>
     ELSE UNCHANGED <<hvars, gco, strokeStyle, pathPts, pathLast>>

\* stopDrawing (mouseup / mouseleave / touchend).  isDrawing.current and
\* startPointRef.current are reset before the two tests that read them.
PointerUp(ev, pt) ==
  LET h0 == [h |-> history, i |-> historyIndex]
      h1 == IF ev = "touch" /\ (selectedTool = "bucket" \/ isDrawing)
            THEN SaveToHistory(h0.h, h0.i, canvas) ELSE h0
      isDrawing1 == FALSE
      startPoint1 == NoPoint
      h2 == IF isDrawing1 /\ selectedTool # "rect-select"
            THEN SaveToHistory(h1.h, h1.i, canvas) ELSE h1
      h3 == IF /\ selectedTool \in Shapes
               /\ startPoint1 # NoPoint
               /\ lastImageRef # NoImage
            THEN SaveToHistory(h2.h, h2.i, canvas) ELSE h2
  IN /\ isDrawing' = isDrawing1
     /\ startPointRef' = startPoint1
     /\ IF selectedTool = "eraser"
        THEN /\ gco' = "source-over"
             /\ strokeStyle' = IF patternRef # Null THEN patternRef
                               ELSE strokeStyle
        ELSE UNCHANGED <<gco, strokeStyle>>
     /\ history' = h3.h
     /\ historyIndex' = h3.i
     /\ UNCHANGED <<cw, ch, svars, canvas, selectedTool, patternRef, tvars,
                    lastImageRef, pathPts, pathLast>>

\* undo (Edit > Undo and Cmd/Ctrl+Z run the same statements).
UndoBelowZero ==
  /\ UNCHANGED <<cw, ch, svars, history, gvars, tvars, selectedTool, patternRef>>
  /\ IF historyIndex >= 0
     THEN /\ historyIndex' = historyIndex - 1
          /\ canvas' = (IF historyIndex' >= 0
                        THEN history[historyIndex' + 1]
                        ELSE canvas)
     ELSE UNCHANGED <<historyIndex, canvas>>

Undo ==
  /\ UNCHANGED <<cw, ch, svars, history, gvars, tvars, selectedTool, patternRef>>
  /\ IF historyIndex > 0
     THEN /\ historyIndex' = historyIndex - 1
          /\ canvas' = history[historyIndex' + 1]
     ELSE UNCHANGED <<historyIndex, canvas>>

\* redo (Edit > Redo, Cmd/Ctrl+Shift+Z and Cmd/Ctrl+Y).
Redo ==
  /\ UNCHANGED <<cw, ch, svars, history, gvars, tvars, selectedTool, patternRef>>
  /\ IF historyIndex < Len(history) - 1
     THEN /\ historyIndex' = historyIndex + 1
          /\ canvas' = history[historyIndex' + 1]
     ELSE UNCHANGED <<historyIndex, canvas>>

\* clear: fillRect of the whole canvas with white, then saveToHistory.
Clear ==
  LET img == PaintPixels(canvas, DOMAIN canvas, "white", gco, cw, ch)
  IN /\ canvas' = img
     /\ Save(img)
     /\ UNCHANGED <<cw, ch, svars, gvars, tvars, selectedTool, patternRef>>

\* Drawing an opaque image of the canvas' size over the whole canvas.
DrawImage(img) == [k \in DOMAIN canvas |-> Composite(gco, img[k])]

\* importImage's img.onload: white fillRect, drawImage scaled to the canvas,
\* saveToHistory.
ImportImage(img) ==
  /\ canvas' = DrawImage(img)
  /\ Save(DrawImage(img))
  /\ UNCHANGED <<cw, ch, svars, gvars, tvars, selectedTool, patternRef>>

\* handlePaste's img.onload without a selection: drawImage, saveToHistory.
Paste(img) ==
  /\ canvas' = DrawImage(img)
  /\ Save(DrawImage(img))
  /\ UNCHANGED <<cw, ch, svars, gvars, tvars, selectedTool, patternRef>>

\* handleTextInput (Enter) / handleTextBlur on the text input, with
\* renderText when the input holds text.
TextCommit(hasText) ==
  /\ isTyping
  /\ isTyping' = FALSE
  /\ UNCHANGED <<cw, ch, svars, gvars, textPosition, selectedTool, patternRef>>
  /\ IF hasText /\ patternRef # Null /\ textPosition # NoPoint
     THEN LET img == PaintPixels(canvas, {Idx(cw, textPosition)},
                                 patternRef, gco, cw, ch)
          IN canvas' = img /\ Save(img)
     ELSE UNCHANGED hvars

\* The handlers above are those of the drawing tools, run with no selection;
\* the ones below are the branches of the rect-select tool, the clipboard
\* cut and the selection animation.  A selection is the rectangle
\* [startX |-> , startY |-> , width |-> , height |-> ].

\* Pixels covered by fillRect(startX, startY, width, height).
RectPixels(sel, w, h) ==
  { Idx(w, q) : q \in { r \in Points(w, h) :
      /\ r[1] >= sel.startX /\ r[1] < sel.startX + sel.width
      /\ r[2] >= sel.startY /\ r[2] < sel.startY + sel.height } }

\* Pixels touched by strokeRect with lineWidth 1: the line runs along the
\* edges of the rectangle and covers half of the pixel on either side.
StrokeRectPixels(sel, w, h) ==
  { Idx(w, q) : q \in { r \in Points(w, h) :
      /\ r[1] >= sel.startX - 1 /\ r[1] <= sel.startX + sel.width
      /\ r[2] >= sel.startY - 1 /\ r[2] <= sel.startY + sel.height
      /\ ~ (/\ r[1] >= sel.startX + 1 /\ r[1] <= sel.startX + sel.width - 2
            /\ r[2] >= sel.startY + 1
            /\ r[2] <= sel.startY + sel.height - 2) } }

\* The rectangle spanned by the points a and b.
RectOf(a, b) ==
  [startX |-> Min(a[1], b[1]), startY |-> Min(a[2], b[2]),
   width |-> Max(a[1], b[1]) - Min(a[1], b[1]),
   height |-> Max(a[2], b[2]) - Min(a[2], b[2])]

isPointInSelection(point, sel) ==
  /\ point[1] >= sel.startX
  /\ point[1] <= sel.startX + sel.width
  /\ point[2] >= sel.startY
  /\ point[2] <= sel.startY + sel.height

\* putImageData(lastImageRef.current, 0, 0) when the ref holds an image.
Restored(img) == IF lastImageRef # NoImage THEN lastImageRef ELSE img

\* One run of animate(): the canvas saved before the selection is put back
\* and the dashed rectangle is stroked in black over it.
Frame(sel) ==
  PaintPixels(lastImageRef, StrokeRectPixels(sel, cw, ch), "default",
              "source-over", cw, ch)

\* The selection effect, run after a render that changed selection to sel:
\* the canvas it leaves when the handler left the pixels img.
AfterSelectionEffect(sel, img) ==
  IF sel = NoSelection THEN Restored(img)
  ELSE IF lastImageRef # NoImage THEN Frame(sel)
  ELSE img

\* startDrawing with the rect-select tool.
SelectDown(pt) ==
  /\ selectedTool = "rect-select"
  /\ UNCHANGED <<cw, ch, selectedTool, patternRef, history, historyIndex,
                 isDrawing, gco, strokeStyle, pathPts, pathLast, tvars>>
  /\ IF selection # NoSelection /\ isPointInSelection(pt, selection)
     THEN /\ isDraggingSelection' = TRUE
          /\ dragStartRef' = pt
          /\ UNCHANGED <<canvas, selection, startPointRef, lastImageRef>>
     ELSE /\ selection' = NoSelection
          /\ canvas' = (IF selection # NoSelection THEN Restored(canvas) ELSE canvas)
          /\ startPointRef' = pt
          /\ lastImageRef' = canvas'
          /\ UNCHANGED <<isDraggingSelection, dragStartRef>>

\* draw with the rect-select tool.
SelectMove(pt) ==
  /\ selectedTool = "rect-select"
  /\ UNCHANGED <<cw, ch, selectedTool, patternRef, history, historyIndex,
                 isDrawing, startPointRef, lastImageRef, gco, strokeStyle,
                 pathPts, pathLast, tvars, isDraggingSelection>>
  /\ IF isDraggingSelection /\ selection # NoSelection /\ dragStartRef # NoPoint
     THEN /\ selection' =
               [selection EXCEPT
                  !.startX = selection.startX + (pt[1] - dragStartRef[1]),
                  !.startY = selection.startY + (pt[2] - dragStartRef[2])]
          /\ dragStartRef' = pt
          /\ canvas' = AfterSelectionEffect(selection', canvas)
     ELSE IF startPointRef # NoPoint /\ lastImageRef # NoImage
     THEN /\ canvas' = PaintPixels(lastImageRef,
                                   StrokeRectPixels(RectOf(startPointRef, pt),
                                                    cw, ch),
                                   "default", "source-over", cw, ch)
          /\ UNCHANGED <<selection, dragStartRef>>
     ELSE UNCHANGED <<canvas, selection, dragStartRef>>

\* stopDrawing with the rect-select tool, and the selection effect that
\* follows when it set the selection.
SelectUp(ev, pt) ==
  LET completes == startPointRef # NoPoint
      sel == RectOf(startPointRef, pt)
      selection1 == IF ~completes THEN selection
                    ELSE IF sel.width > 0 /\ sel.height > 0 THEN sel
                    ELSE NoSelection
      canvas1 == IF completes THEN Restored(canvas) ELSE canvas
      h0 == [h |-> history, i |-> historyIndex]
      h1 == IF ev = "touch" /\ isDrawing
            THEN SaveToHistory(h0.h, h0.i, canvas) ELSE h0
      h2 == IF isDraggingSelection
            THEN SaveToHistory(h1.h, h1.i, canvas1) ELSE h1
  IN /\ selectedTool = "rect-select"
     /\ selection' = selection1
     /\ canvas' = (IF completes
                   THEN AfterSelectionEffect(selection1, canvas1)
                   ELSE canvas1)
     /\ history' = h2.h
     /\ historyIndex' = h2.i
     /\ isDraggingSelection' = FALSE
     /\ dragStartRef' = (IF isDraggingSelection THEN NoPoint ELSE dragStartRef)
     /\ isDrawing' = FALSE
     /\ startPointRef' = NoPoint
     /\ UNCHANGED <<cw, ch, selectedTool, patternRef, lastImageRef, gco,
                    strokeStyle, pathPts, pathLast, tvars>>

\* cut (Edit > Cut and Cmd/Ctrl+X): copySelectionToClipboard, then
\* clearSelection, which fills the selected rectangle with white and calls
\* saveToHistory.  The selection stays set.
Cut ==
  /\ UNCHANGED <<cw, ch, svars, gvars, tvars, selectedTool, patternRef>>
  /\ IF selection = NoSelection
     THEN UNCHANGED hvars
     ELSE LET img == PaintPixels(canvas, RectPixels(selection, cw, ch),
                                 "white", gco, cw, ch)
          IN canvas' = img /\ Save(img)

\* A requestAnimationFrame callback of the selection animation.
AnimationFrame ==
  /\ selection # NoSelection
  /\ lastImageRef # NoImage
  /\ canvas' = Frame(selection)
  /\ UNCHANGED <<cw, ch, svars, history, historyIndex, gvars, tvars,
                 selectedTool, patternRef>>

\* handleKeyDown for Escape with a selection, and the selection effect.
Escape ==
  /\ selection # NoSelection
  /\ selection' = NoSelection
  /\ canvas' = Restored(canvas)
  /\ UNCHANGED <<cw, ch, history, historyIndex, gvars, tvars, selectedTool,
                 patternRef, isDraggingSelection, dragStartRef>>

----------------------------------------------------------------------------
(* Soundboard: data                                                        *)

\* undefined (a missing property); null is Null.
Undefined == "undefined"

NumSlots == 9

SlotIndices == 0 .. (NumSlots - 1)

\* id of the default board ("default"); other ids are fresh numbers
\* (Date.now() and Math.random()).
DefaultId == 0

VARIABLES
  boards,               \* boards state: sequence of [id, name, slots]
  storage,              \* localStorage "soundboards": [set, boards]
  activeBoardId,        \* activeBoardId state
  playbackStates,       \* playbackStates state: [SlotIndices -> record]
  audioRefs,            \* audioRefs.current: TRUE where an Audio is registered
  liveAudios,           \* Audio elements playing (not ended, not paused): the
                        \* index they were started for and the board whose
                        \* slot holds their data
  mediaRecorderRef,     \* mediaRecorderRef.current: recorder number, 0 for null
  activeSlotRef,        \* activeSlotRef.current: index, -1 for null
  recorders,            \* MediaRecorder objects created, by number
  pendingMic,           \* getUserMedia promises not yet settled
  pendingImports,       \* FileReader loads not yet delivered
  exported,             \* the last soundboards.json downloaded by exportBoard
  initFetchPending,     \* the first-run fetch has not settled yet
  isEditingTitle,       \* isEditingTitle state
  micPermissionGranted, \* micPermissionGranted state
  mounted,              \* "unmounted", "mounted", or "crashed" when an
                        \* exception left the component's render
  nextId,               \* next fresh id / object number
  bsteps,               \* number of handlers run
  obs                   \* observer: failed requests, last imported file,
                        \* the list the last export was made from

bvars == <<boards, storage, activeBoardId, playbackStates, audioRefs,
           liveAudios, mediaRecorderRef, activeSlotRef, recorders, pendingMic,
           pendingImports, exported, initFetchPending,
           isEditingTitle, micPermissionGranted, mounted, nextId, bsteps,
           obs>>

vars == <<pvars, bvars>>

EmptySlot == [audioData |-> Null, emoji |-> Undefined, title |-> Undefined]

\* Array(9).fill({audioData: null, emoji: undefined, title: undefined})
EmptySlots == [i \in 1 .. NumSlots |-> EmptySlot]

DefaultBoard == [id |-> DefaultId, name |-> "New Soundboard", slots |-> EmptySlots]

\* JavaScript truthiness of a slot's audioData (a string, null or undefined).
Truthy(v) == v # Null /\ v # Undefined /\ v # ""

\* obj.key of a parsed JSON object: undefined when the key is missing.
Field(obj, key) == IF key \in DOMAIN obj THEN obj[key] ELSE Undefined

\* JSON.stringify of {audioData, emoji, title}: undefined properties are
\* omitted, null and the empty string are kept (the first definition is a
\* stringify that drops every falsy emoji or title instead).
StringifySlotTruthy(slot) ==
  [k \in {"audioData"}
         \cup (IF Truthy(slot.emoji) THEN {"emoji"} ELSE {})
         \cup (IF Truthy(slot.title) THEN {"title"} ELSE {}) |-> slot[k]]

StringifySlot(slot) ==
  [k \in {key \in {"audioData", "emoji", "title"} : slot[key] # Undefined} |->
     slot[k]]

\* The object built from a parsed slot: {audioData: slot.audioData,
\* emoji: slot.emoji, title: slot.title}.
ParseSlot(json) ==
  [audioData |-> Field(json, "audioData"),
   emoji |-> Field(json, "emoji"),
   title |-> Field(json, "title")]

\* JSON text of a board list (storage and export): each board spread, with
\* its slots reduced to audioData, emoji and title.
StringifyBoards(bs) ==
  [i \in 1 .. Len(bs) |->
     [id |-> bs[i].id, name |-> bs[i].name, hasSlots |-> TRUE,
      slots |-> [j \in 1 .. Len(bs[i].slots) |-> StringifySlot(bs[i].slots[j])]]]

\* boards.find((b) => b.id === id) succeeds.
HasBoard(bs, id) == \E i \in 1 .. Len(bs) : bs[i].id = id

\* The activeBoardId effect: an id that is not in the list is replaced by the
\* first board's id, or "default".
FixActiveStale(bs, id) == id

FixActive(bs, id) ==
  IF HasBoard(bs, id) THEN id
  ELSE IF Len(bs) > 0 THEN bs[1].id ELSE DefaultId

\* activeBoard: the board found, else boards[0], else a default board object.
ActiveBoardOf(bs, id) ==
  IF HasBoard(bs, id)
  THEN bs[CHOOSE i \in 1 .. Len(bs) :
            bs[i].id = id /\ \A j \in 1 .. (i - 1) : bs[j].id # id]
  ELSE IF Len(bs) > 0 THEN bs[1] ELSE DefaultBoard

ActiveBoard == ActiveBoardOf(boards, activeBoardId)

\* boards.map: the board whose id is id gets slot index replaced.
WithSlot(bs, id, index, slot) ==
  [i \in 1 .. Len(bs) |->
     IF bs[i].id = id
     THEN [bs[i] EXCEPT !.slots[index + 1] = slot]
     ELSE bs[i]]

WithName(bs, id, name) ==
  [i \in 1 .. Len(bs) |-> IF bs[i].id = id THEN [bs[i] EXCEPT !.name = name] ELSE bs[i]]

\* boards.filter((b) => b.id !== id)
RECURSIVE WithoutBoard(_, _)
WithoutBoard(bs, id) ==
  IF Len(bs) = 0 THEN << >>
  ELSE IF Head(bs).id = id THEN WithoutBoard(Tail(bs), id)
  ELSE << Head(bs) >> \o WithoutBoard(Tail(bs), id)

----------------------------------------------------------------------------
(* Soundboard: files                                                       *)

\* A file (an exported or picked soundboards.json, or the server's): kind is
\* "boards" for {"boards": [...]}, "single" for one board object without a
\* boards property, "text" for content that is not JSON, "none" for no file.
\* A board whose slots property is not an array has hasSlots FALSE.
NoFile == [kind |-> "none", boards |-> << >>]

SampleSlot == [audioData |-> "s1", emoji |-> "e"]

SampleBoardJson ==
  [id |-> DefaultId, name |-> "Sample", hasSlots |-> TRUE,
   slots |-> [j \in 1 .. NumSlots |->
                IF j = 1 THEN SampleSlot ELSE [audioData |-> Null]]]

ShortBoardJson ==
  [id |-> DefaultId, name |-> "Short", hasSlots |-> TRUE,
   slots |-> << SampleSlot >>]

BrokenBoardJson ==
  [id |-> DefaultId, name |-> "Broken", hasSlots |-> FALSE, slots |-> << >>]

EmptyListFile == [kind |-> "boards", boards |-> << >>]

\* What a fetch of /soundboards.json can answer; NoFile is a failed fetch.
ServerFiles ==
  { [kind |-> "boards", boards |-> << SampleBoardJson >>],
    [kind |-> "boards", boards |-> << BrokenBoardJson >>],
    EmptyListFile,
    NoFile }

\* Files the user picks besides the exported one.
PickedFiles ==
  { [kind |-> "single", boards |-> << ShortBoardJson >>],
    [kind |-> "text", boards |-> << >>],
    EmptyListFile }

\* A slot that is a number, a string or {}: every property read of it is
\* undefined.
OddSlot == << >>

OddSlotsBoardJson ==
  [id |-> DefaultId, name |-> "Odd", hasSlots |-> TRUE,
   slots |-> [j \in 1 .. NumSlots |-> OddSlot]]

\* Files that are not a well-formed board or list of boards: not JSON, a
\* boards property that is not an array, a board without a slots array, slots
\* that are not slot objects, and an empty list.
MalformedFiles ==
  { [kind |-> "text", boards |-> << >>],
    [kind |-> "notarray", boards |-> << >>],
    [kind |-> "boards", boards |-> << BrokenBoardJson >>],
    [kind |-> "boards", boards |-> << OddSlotsBoardJson >>],
    EmptyListFile }

\* JSON.parse, `data.boards || [data]` and the map that gives every board a
\* fresh id and rebuilds its slots; ok is FALSE when any of it throws.
LoadBoards(file, firstId) ==
  IF file.kind \notin {"boards", "single"}
       \/ \E i \in 1 .. Len(file.boards) : ~file.boards[i].hasSlots
  THEN [ok |-> FALSE, boards |-> << >>]
  ELSE [ok |-> TRUE,
        boards |-> [i \in 1 .. Len(file.boards) |->
                      [id |-> firstId + i - 1,
                       name |-> file.boards[i].name,
                       slots |-> [j \in 1 .. Len(file.boards[i].slots) |->
                                    ParseSlot(file.boards[i].slots[j])]]]]

\* The useState initialiser's reading of a saved list: ids are kept.
ParseStored(json) ==
  [i \in 1 .. Len(json) |->
     [id |-> json[i].id, name |-> json[i].name,
      slots |-> [j \in 1 .. Len(json[i].slots) |-> ParseSlot(json[i].slots[j])]]]

----------------------------------------------------------------------------
(* Soundboard: handlers                                                    *)

MaxBoardSteps == 5

MaxRecorders == 2

\* Slot buttons the user presses, prompt() answers and recorded clips.
ClickSlots == {0, 1}

EmojiAnswers == {"e", Null}

TitleAnswers == {"", Null}

Clips == {"rec"}

stvars == <<boards, storage>>

recvars == <<mediaRecorderRef, activeSlotRef, recorders, pendingMic,
             micPermissionGranted>>

audvars == <<audioRefs, liveAudios>>

filevars == <<pendingImports, exported, initFetchPending>>

\* Every handler counts as one step.
Step ==
  /\ mounted = "mounted"
  /\ bsteps < MaxBoardSteps
  /\ bsteps' = bsteps + 1
  /\ UNCHANGED <<pvars, mounted>>

Quietly == Step /\ UNCHANGED obs

SaveBoards(newBoards) ==
  /\ storage' = [set |-> TRUE, boards |-> StringifyBoards(newBoards)]
  /\ boards' = newBoards

\* The render after a handler: the activeBoardId effect has run.
KeepActive == activeBoardId' = FixActive(boards', activeBoardId)

AddNewBoard ==
  LET newBoard == [id |-> nextId, name |-> "New Soundboard", slots |-> EmptySlots]
  IN /\ Quietly
     /\ SaveBoards(Append(boards, newBoard))
     /\ activeBoardId' = newBoard.id
     /\ nextId' = nextId + 1
     /\ UNCHANGED <<playbackStates, recvars, audvars, filevars, isEditingTitle>>

SelectBoard(i) ==
  /\ i \in 1 .. Len(boards)
  /\ boards[i].id # activeBoardId
  /\ Quietly
  /\ activeBoardId' = boards[i].id
  /\ UNCHANGED <<stvars, playbackStates, recvars, audvars, filevars,
                 isEditingTitle, nextId>>

StartEditTitle ==
  /\ ~isEditingTitle
  /\ Quietly
  /\ isEditingTitle' = TRUE
  /\ UNCHANGED <<stvars, activeBoardId, playbackStates, recvars, audvars,
                 filevars, nextId>>

\* The title input's onChange: the list is replaced, nothing is stored.
TypeName(name) ==
  /\ isEditingTitle
  /\ name # ActiveBoard.name
  /\ Quietly
  /\ boards' = WithName(boards, activeBoardId, name)
  /\ KeepActive
  /\ UNCHANGED <<storage, playbackStates, recvars, audvars, filevars,
                 isEditingTitle, nextId>>

\* onBlur / Enter: the input's value is the name shown.
UpdateBoardName ==
  /\ isEditingTitle
  /\ Quietly
  /\ SaveBoards(WithName(boards, activeBoardId, ActiveBoard.name))
  /\ isEditingTitle' = FALSE
  /\ KeepActive
  /\ UNCHANGED <<playbackStates, recvars, audvars, filevars, nextId>>

UpdateSlotState(index, isPlaying) ==
  playbackStates' = [playbackStates EXCEPT ![index].isPlaying = isPlaying]

\* startRecording up to its first await: the request closes over the
\* render's boards and activeBoardId (through handleRecordingStop).
StartRecording(index) ==
  /\ Len(recorders) + Cardinality(pendingMic) < MaxRecorders
  /\ pendingMic' = pendingMic \cup
                     {[n |-> nextId, slot |-> index, boards |-> boards,
                       abid |-> activeBoardId]}
  /\ nextId' = nextId + 1
  /\ UNCHANGED <<stvars, activeBoardId, playbackStates, mediaRecorderRef,
                 activeSlotRef, recorders, micPermissionGranted, audvars>>

\* getUserMedia and enumerateDevices resolved, the recorder is built and
\* started.
MicGranted(req) ==
  /\ req \in pendingMic
  /\ Quietly
  /\ pendingMic' = pendingMic \ {req}
  /\ micPermissionGranted' = TRUE
  /\ recorders' = Append(recorders, [slot |-> req.slot, boards |-> req.boards,
                                     abid |-> req.abid, state |-> "recording"])
  /\ mediaRecorderRef' = Len(recorders) + 1
  /\ activeSlotRef' = req.slot
  /\ playbackStates' = [playbackStates EXCEPT
                          ![req.slot] = [isRecording |-> TRUE, isPlaying |-> FALSE]]
  /\ UNCHANGED <<stvars, activeBoardId, audvars, filevars, isEditingTitle, nextId>>

\* A startRecording that marked the slot as recording before its request
\* failed.
MicDeniedAfterMark(req, stage) ==
  /\ req \in pendingMic
  /\ Step
  /\ obs' = [obs EXCEPT !.failed = @ \cup {[slot |-> req.slot, at |-> nextId]}]
  /\ pendingMic' = pendingMic \ {req}
  /\ micPermissionGranted' = (micPermissionGranted \/ stage = "MediaRecorder")
  /\ playbackStates' = [playbackStates EXCEPT
                          ![req.slot] = [isRecording |-> TRUE, isPlaying |-> FALSE]]
  /\ UNCHANGED <<stvars, activeBoardId, mediaRecorderRef,
                 activeSlotRef, recorders, audvars, filevars, isEditingTitle,
                 nextId>>

\* getUserMedia rejects, or the MediaRecorder constructor throws after access
\* was granted: the catch logs the error.
MicDenied(req, stage) ==
  /\ req \in pendingMic
  /\ Step
  /\ obs' = [obs EXCEPT !.failed = @ \cup {[slot |-> req.slot, at |-> nextId]}]
  /\ pendingMic' = pendingMic \ {req}
  /\ micPermissionGranted' = (micPermissionGranted \/ stage = "MediaRecorder")
  /\ UNCHANGED <<stvars, activeBoardId, playbackStates, mediaRecorderRef,
                 activeSlotRef, recorders, audvars, filevars, isEditingTitle,
                 nextId>>

StopRecording ==
  /\ IF mediaRecorderRef # 0 /\ recorders[mediaRecorderRef].state = "recording"
     THEN /\ recorders' = [recorders EXCEPT ![mediaRecorderRef].state = "stopping"]
          /\ activeSlotRef' = -1
     ELSE UNCHANGED <<recorders, activeSlotRef>>
  /\ UNCHANGED <<stvars, activeBoardId, playbackStates, mediaRecorderRef,
                 pendingMic, micPermissionGranted, audvars, nextId>>

\* The list handleRecordingStop builds: the board whose id is id gets the
\* clip in slot index and keeps that slot's emoji and title.
RecordInto(bs, id, index, clip) ==
  [i \in 1 .. Len(bs) |->
     IF bs[i].id = id
     THEN [bs[i] EXCEPT !.slots[index + 1] =
             [audioData |-> clip,
              emoji |-> bs[i].slots[index + 1].emoji,
              title |-> bs[i].slots[index + 1].title]]
     ELSE bs[i]]

\* The recorder's stop event: handleRecordingStop runs with the boards and
\* activeBoardId of the render that started the recording.
RecordingStopped(n, clip) ==
  /\ n \in 1 .. Len(recorders)
  /\ recorders[n].state = "stopping"
  /\ Quietly
  /\ recorders' = [recorders EXCEPT ![n].state = "inactive"]
  /\ SaveBoards(RecordInto(recorders[n].boards, recorders[n].abid,
                           recorders[n].slot, clip))
  /\ playbackStates' = [playbackStates EXCEPT
                          ![recorders[n].slot] =
                             [isRecording |-> FALSE, isPlaying |-> FALSE]]
  /\ KeepActive
  /\ UNCHANGED <<mediaRecorderRef, activeSlotRef, pendingMic,
                 micPermissionGranted, audvars, filevars, isEditingTitle, nextId>>

\* The same event for a long recording: spreading the bytes into
\* String.fromCharCode throws a RangeError before anything is stored.
RecordingStopFails(n) ==
  /\ n \in 1 .. Len(recorders)
  /\ recorders[n].state = "stopping"
  /\ Quietly
  /\ recorders' = [recorders EXCEPT ![n].state = "inactive"]
  /\ UNCHANGED <<stvars, activeBoardId, playbackStates, mediaRecorderRef,
                 activeSlotRef, pendingMic, micPermissionGranted, audvars,
                 filevars, isEditingTitle, nextId>>

PlaySound(index) ==
  /\ audioRefs' = [audioRefs EXCEPT ![index] = nextId]
  /\ liveAudios' = liveAudios \cup
                     {[n |-> nextId, index |-> index, abid |-> activeBoardId]}
  /\ nextId' = nextId + 1
  /\ UpdateSlotState(index, TRUE)
  /\ UNCHANGED <<stvars, activeBoardId, recvars>>

StopSound(index) ==
  /\ IF audioRefs[index] # 0
     THEN /\ liveAudios' = {a \in liveAudios : a.n # audioRefs[index]}
          /\ audioRefs' = [audioRefs EXCEPT ![index] = 0]
          /\ UpdateSlotState(index, FALSE)
     ELSE UNCHANGED <<liveAudios, audioRefs, playbackStates>>
  /\ UNCHANGED <<stvars, activeBoardId, recvars, nextId>>

\* audio.onended
AudioEnded(a) ==
  /\ a \in liveAudios
  /\ Quietly
  /\ liveAudios' = liveAudios \ {a}
  /\ UpdateSlotState(a.index, FALSE)
  /\ audioRefs' = [audioRefs EXCEPT ![a.index] = 0]
  /\ UNCHANGED <<stvars, activeBoardId, recvars, filevars, isEditingTitle, nextId>>

HandleSlotClick(index) ==
  /\ index \in ClickSlots
  /\ index < Len(ActiveBoard.slots)
  /\ LET slot == ActiveBoard.slots[index + 1]
     IN IF Truthy(slot.audioData)
        THEN IF playbackStates[index].isPlaying
             THEN StopSound(index)
             ELSE PlaySound(index)
        ELSE IF ~playbackStates[index].isRecording
        THEN StartRecording(index)
        ELSE StopRecording
  /\ Quietly
  /\ UNCHANGED <<filevars, isEditingTitle>>

\* The window's keydown listener (handleKeyDown).  A slot index past the end
\* of the active board's slots makes slot.audioData throw: nothing changes.
KeyDown(keyCode) ==
  LET index == IF keyCode >= 97 THEN keyCode - 97 ELSE keyCode - 49
  IN /\ Quietly
     /\ UNCHANGED <<filevars, isEditingTitle>>
     /\ IF /\ \/ (keyCode >= 97 /\ keyCode <= 105)
              \/ (keyCode >= 49 /\ keyCode <= 57)
           /\ index < Len(ActiveBoard.slots)
           /\ Truthy(ActiveBoard.slots[index + 1].audioData)
        THEN IF playbackStates[index].isPlaying
             THEN StopSound(index)
             ELSE PlaySound(index)
        ELSE UNCHANGED <<stvars, activeBoardId, playbackStates, recvars,
                         audvars, nextId>>

DeleteCurrentBoard ==
  /\ Quietly
  /\ IF Len(boards) <= 1
     THEN UNCHANGED <<stvars, activeBoardId>>
     ELSE LET newBoards == WithoutBoard(boards, activeBoardId)
          IN /\ SaveBoards(newBoards)
             /\ activeBoardId' = newBoards[1].id
  /\ UNCHANGED <<playbackStates, recvars, audvars, filevars, isEditingTitle,
                 nextId>>

\* The slot's delete, emoji and title controls exist only while it has audio.
HandleDelete(index) ==
  /\ index \in ClickSlots
  /\ index < Len(ActiveBoard.slots)
  /\ Truthy(ActiveBoard.slots[index + 1].audioData)
  /\ Quietly
  /\ SaveBoards(WithSlot(boards, activeBoardId, index, EmptySlot))
  /\ KeepActive
  /\ UNCHANGED <<playbackStates, recvars, audvars, filevars, isEditingTitle,
                 nextId>>

HandleEmojiClick(index, emoji) ==
  /\ index \in ClickSlots
  /\ index < Len(ActiveBoard.slots)
  /\ Truthy(ActiveBoard.slots[index + 1].audioData)
  /\ Quietly
  /\ IF Truthy(emoji)
     THEN SaveBoards(WithSlot(boards, activeBoardId, index,
                              [ActiveBoard.slots[index + 1] EXCEPT !.emoji = emoji]))
     ELSE UNCHANGED stvars
  /\ KeepActive
  /\ UNCHANGED <<playbackStates, recvars, audvars, filevars, isEditingTitle,
                 nextId>>

HandleTitleClick(index, title) ==
  /\ index \in ClickSlots
  /\ index < Len(ActiveBoard.slots)
  /\ Truthy(ActiveBoard.slots[index + 1].audioData)
  /\ Quietly
  /\ IF title # Null
     THEN SaveBoards(WithSlot(boards, activeBoardId, index,
                              [ActiveBoard.slots[index + 1] EXCEPT !.title = title]))
     ELSE UNCHANGED stvars
  /\ KeepActive
  /\ UNCHANGED <<playbackStates, recvars, audvars, filevars, isEditingTitle,
                 nextId>>

ExportBoard ==
  /\ Step
  /\ obs' = [obs EXCEPT !.exportedFrom = boards]
  /\ exported' = [kind |-> "boards", boards |-> StringifyBoards(boards)]
  /\ UNCHANGED <<stvars, activeBoardId, playbackStates, recvars, audvars,
                 pendingImports, initFetchPending, isEditingTitle, nextId>>

\* importBoard up to readAsText: onload closes over the render's boards.
ImportBoard(file) ==
  /\ file.kind # "none"
  /\ pendingImports = {}
  /\ Quietly
  /\ pendingImports' = {[file |-> file, boards |-> boards, abid |-> activeBoardId]}
  /\ UNCHANGED <<stvars, activeBoardId, playbackStates, recvars, audvars,
                 exported, initFetchPending, isEditingTitle, nextId>>

\* reader.onload
ImportLoad(req) ==
  /\ req \in pendingImports
  /\ Step
  /\ obs' = [obs EXCEPT !.file = req.file]
  /\ pendingImports' = pendingImports \ {req}
  /\ LET loaded == LoadBoards(req.file, nextId)
     IN IF ~loaded.ok
        THEN UNCHANGED <<stvars, activeBoardId, nextId>>
        ELSE /\ SaveBoards(req.boards \o loaded.boards)
             /\ nextId' = nextId + Len(loaded.boards)
             /\ activeBoardId' =
                  FixActive(boards', IF Len(loaded.boards) > 0
                                     THEN loaded.boards[1].id
                                     ELSE activeBoardId)
  /\ UNCHANGED <<playbackStates, recvars, audvars, exported,
                 initFetchPending, isEditingTitle>>

\* What both fetch continuations do with a response they could load.
StoreFetched(loaded) ==
  /\ boards' = loaded.boards
  /\ storage' = [set |-> TRUE, boards |-> StringifyBoards(loaded.boards)]
  /\ nextId' = nextId + Len(loaded.boards)

\* reloadFromJson, at the time its fetch settles.
ReloadFromJson(response) ==
  /\ Quietly
  /\ LET loaded == LoadBoards(response, nextId)
     IN IF loaded.ok
        THEN StoreFetched(loaded)
        ELSE UNCHANGED <<stvars, nextId>>
  /\ KeepActive
  /\ UNCHANGED <<playbackStates, recvars, audvars, filevars, isEditingTitle>>

\* The first run's fetch settles: its catch stores the default board.
InitFetchDone(response) ==
  /\ initFetchPending
  /\ Quietly
  /\ initFetchPending' = FALSE
  /\ LET loaded == LoadBoards(response, nextId)
     IN IF loaded.ok
        THEN StoreFetched(loaded)
        ELSE /\ boards' = << DefaultBoard >>
             /\ storage' = [set |-> TRUE,
                            boards |-> StringifyBoards(<< DefaultBoard >>)]
             /\ UNCHANGED nextId
  /\ KeepActive
  /\ UNCHANGED <<playbackStates, recvars, audvars, pendingImports, exported,
                 isEditingTitle>>

----------------------------------------------------------------------------
(* Soundboard: initial state                                               *)

ObsIdle == [failed |-> {}, file |-> NoFile, exportedFrom |-> << >>]

\* The state and refs of the window: m is "unmounted" before the first
\* render.
BoardState(bs, stored, fetching, m) ==
  /\ mounted = m
  /\ boards = bs
  /\ storage = stored
  /\ activeBoardId = (IF Len(bs) > 0 THEN bs[1].id ELSE DefaultId)
  /\ playbackStates = [i \in SlotIndices |->
                         [isRecording |-> FALSE, isPlaying |-> FALSE]]
  /\ audioRefs = [i \in SlotIndices |-> 0]
  /\ liveAudios = {}
  /\ mediaRecorderRef = 0
  /\ activeSlotRef = -1
  /\ recorders = << >>
  /\ pendingMic = {}
  /\ pendingImports = {}
  /\ exported = NoFile
  /\ initFetchPending = fetching
  /\ isEditingTitle = FALSE
  /\ micPermissionGranted = FALSE
  /\ nextId = 1
  /\ bsteps = 0
  /\ obs = ObsIdle

\* The window after mount with the list bs from the useState initialisers.
InitBoards(bs, stored, fetching) == BoardState(bs, stored, fetching, "mounted")

NoStorage == [set |-> FALSE, boards |-> << >>]

\* First run: nothing is stored, the default board is shown and the fetch
\* of /soundboards.json is under way.
InitFirstRun == InitBoards(<< DefaultBoard >>, NoStorage, TRUE)

\* The soundboard window is closed while the paint window is used.
BoardIdle == InitFirstRun

----------------------------------------------------------------------------
(* Paint canvas: specifications                                            *)

ProbeIdle ==
  [on |-> FALSE, pre |-> NoImage, base |-> NoImage, n |-> 0, u |-> 0,
   cut |-> 0]

\* The refs and state of the component with history hist and cursor idx.
CanvasState(w, h, pat, hist, idx) ==
  /\ cw = w
  /\ ch = h
  /\ canvas = Solid("T", w, h)
  /\ history = hist
  /\ historyIndex = idx
  /\ isDrawing = FALSE
  /\ startPointRef = NoPoint
  /\ lastImageRef = NoImage
  /\ selectedTool = "pencil"
  /\ patternRef = pat
  /\ gco = "source-over"
  /\ strokeStyle = IF pat = Null THEN "default" ELSE pat
  /\ pathPts = {}
  /\ pathLast = NoPoint
  /\ isTyping = FALSE
  /\ textPosition = NoPoint
  /\ selection = NoSelection
  /\ isDraggingSelection = FALSE
  /\ dragStartRef = NoPoint
  /\ steps = 0
  /\ probe = ProbeIdle

\* The component after mount: the first effect sized the canvas, created the
\* context and saved the initial (transparent) canvas to the history.  pat is
\* Null while the pattern image is still loading, else the loaded pattern.
InitCanvas(w, h, pat) == CanvasState(w, h, pat, << Solid("T", w, h) >>, 0)

\* The first effect: it saves the initial canvas; the pattern image pat is
\* cached, so its load follows at once.
MountCanvas(pat) ==
  /\ Len(history) = 0
  /\ Save(canvas)
  /\ patternRef' = pat
  /\ strokeStyle' = pat
  /\ UNCHANGED <<cw, ch, svars, canvas, isDrawing, startPointRef, lastImageRef, gco,
                 pathPts, pathLast, tvars, selectedTool>>

\* History specification: a one-pixel canvas with the white pattern, so that
\* runs long enough to fill the history stay enumerable.  It starts before
\* the first effect, with the empty history and the cursor at -1.
HistoryCanvas == <<1, 1>>

HistoryPatterns == {"white"}

HistoryTools == {"pencil", "eraser", "text", "line"}

HistoryImages == { Solid("W", HistoryCanvas[1], HistoryCanvas[2]) }

InitHistory ==
  /\ CanvasState(HistoryCanvas[1], HistoryCanvas[2], Null, << >>, -1)
  /\ BoardIdle

HMount ==
  \E p \in HistoryPatterns : MountCanvas(p) /\ UNCHANGED <<steps, probe, bvars>>

\* Events reach the handlers once the component is mounted.
Quiet == Len(history) > 0 /\ UNCHANGED <<steps, probe, bvars>>

HSetTool == \E t \in HistoryTools : SetTool(t) /\ Quiet

HLoadPattern == \E p \in HistoryPatterns : LoadPattern(p) /\ Quiet

HPointerDown == \E ev \in Events, pt \in Points(cw, ch) : PointerDown(ev, pt) /\ Quiet

HPointerMove == \E ev \in Events, pt \in Points(cw, ch) : PointerMove(ev, pt) /\ Quiet

HPointerUp == \E ev \in Events, pt \in Points(cw, ch) : PointerUp(ev, pt) /\ Quiet

HUndo == Undo /\ Quiet

HRedo == Redo /\ Quiet

HClear == Clear /\ Quiet

HImportImage == \E img \in HistoryImages : ImportImage(img) /\ Quiet

HPaste == \E img \in HistoryImages : Paste(img) /\ Quiet

HTextCommit == \E hasText \in BOOLEAN : TextCommit(hasText) /\ Quiet

NextHistory ==
  \/ HMount
  \/ HSetTool
  \/ HLoadPattern
  \/ HPointerDown
  \/ HPointerMove
  \/ HPointerUp
  \/ HUndo
  \/ HRedo
  \/ HClear
  \/ HImportImage
  \/ HPaste
  \/ HTextCommit

SpecHistory == InitHistory /\ [][NextHistory]_vars

\* Gesture specification: a small canvas, every tool, pattern and event kind,
\* runs of at most MaxSteps handlers.  probe observes the run: pre is the
\* canvas at the pointer-down of the current gesture, base the canvas before
\* the current run of strokes, n the strokes of the run that changed the
\* canvas, u the undos made since, cut the redo states that the latest change
\* of the history discarded.
MaxSteps == 6

PaintCanvasSize == <<2, 2>>

PaintImages ==
  { Solid(c, PaintCanvasSize[1], PaintCanvasSize[2]) : c \in {"W", "B"} }

InitPaint ==
  InitCanvas(PaintCanvasSize[1], PaintCanvasSize[2], Null) /\ BoardIdle

Tick == steps < MaxSteps /\ steps' = steps + 1 /\ UNCHANGED bvars

Observed(p) ==
  [p EXCEPT !.cut = IF history' # history
                    THEN Len(history) - historyIndex - 1
                    ELSE probe.cut]

PSetTool == \E t \in Tools : SetTool(t) /\ Tick /\ UNCHANGED probe

PLoadPattern == \E p \in Patterns : LoadPattern(p) /\ Tick /\ UNCHANGED probe

PPointerDown ==
  \E ev \in Events, pt \in Points(cw, ch) :
    /\ PointerDown(ev, pt)
    /\ Tick
    /\ probe' = Observed(IF ~isDrawing'
                         THEN ProbeIdle
                         ELSE IF probe.on /\ probe.u = 0
                         THEN [probe EXCEPT !.pre = canvas]
                         ELSE [on |-> TRUE, pre |-> canvas, base |-> canvas,
                               n |-> 0, u |-> 0, cut |-> 0])

PPointerMove ==
  \E ev \in Events, pt \in Points(cw, ch) :
    PointerMove(ev, pt) /\ Tick /\ UNCHANGED probe

PPointerUp ==
  \E ev \in Events, pt \in Points(cw, ch) :
    /\ PointerUp(ev, pt)
    /\ Tick
    /\ probe' = Observed(IF isDrawing /\ probe.on /\ canvas # probe.pre
                         THEN [probe EXCEPT !.n = probe.n + 1]
                         ELSE probe)

PUndo ==
  /\ Undo
  /\ Tick
  /\ probe' = Observed(IF probe.on /\ ~isDrawing /\ probe.n >= 1
                            /\ probe.u < probe.n
                       THEN [probe EXCEPT !.u = probe.u + 1]
                       ELSE ProbeIdle)

PRedo == Redo /\ Tick /\ probe' = Observed(ProbeIdle)

PClear == Clear /\ Tick /\ probe' = Observed(ProbeIdle)

PImportImage ==
  \E img \in PaintImages : ImportImage(img) /\ Tick /\ probe' = Observed(ProbeIdle)

PPaste == \E img \in PaintImages : Paste(img) /\ Tick /\ probe' = Observed(ProbeIdle)

PTextCommit ==
  \E hasText \in BOOLEAN : TextCommit(hasText) /\ Tick /\ probe' = Observed(ProbeIdle)

NextPaint ==
  \/ PSetTool
  \/ PLoadPattern
  \/ PPointerDown
  \/ PPointerMove
  \/ PPointerUp
  \/ PUndo
  \/ PRedo
  \/ PClear
  \/ PImportImage
  \/ PPaste
  \/ PTextCommit

SpecPaint == InitPaint /\ [][NextPaint]_vars

\* Fill specification: the bucket tool on any black and white canvas (every
\* such canvas can be drawn with mouse strokes, which leave the history
\* alone), with a pattern loaded; at most MaxFills fills in a run.
MaxFills == 2

FillCanvasSize == <<3, 3>>

InitFill ==
  /\ cw = FillCanvasSize[1]
  /\ ch = FillCanvasSize[2]
  /\ canvas \in [Pixels(FillCanvasSize[1], FillCanvasSize[2]) -> {"W", "B"}]
  /\ history = << Solid("T", FillCanvasSize[1], FillCanvasSize[2]) >>
  /\ historyIndex = 0
  /\ isDrawing = FALSE
  /\ startPointRef = NoPoint
  /\ lastImageRef = NoImage
  /\ selectedTool = "bucket"
  /\ patternRef \in Patterns
  /\ gco = "source-over"
  /\ strokeStyle = patternRef
  /\ pathPts = {}
  /\ pathLast = NoPoint
  /\ isTyping = FALSE
  /\ textPosition = NoPoint
  /\ selection = NoSelection
  /\ isDraggingSelection = FALSE
  /\ dragStartRef = NoPoint
  /\ steps = 0
  /\ probe = ProbeIdle
  /\ BoardIdle

FPointerDown ==
  \E ev \in Events, pt \in Points(cw, ch) :
    /\ steps < MaxFills
    /\ steps' = steps + 1
    /\ PointerDown(ev, pt)
    /\ UNCHANGED <<probe, bvars>>

NextFill == FPointerDown

SpecFill == InitFill /\ [][NextFill]_vars

\* Selection specification: the rect-select tool on a canvas large enough
\* for a selection with pixels inside its outline; pointer events at a few
\* points, runs of at most MaxSelectSteps handlers and animation frames.
MaxSelectSteps == 6

SelectCanvasSize == <<4, 4>>

SelectPoints == { <<0, 0>>, <<1, 1>>, <<3, 3>> }

InitSelect ==
  InitCanvas(SelectCanvasSize[1], SelectCanvasSize[2], "black") /\ BoardIdle

Beat ==
  /\ steps < MaxSelectSteps
  /\ steps' = steps + 1
  /\ UNCHANGED <<probe, bvars>>

CSetTool == SetTool("rect-select") /\ selectedTool # "rect-select" /\ Beat

CSelectDown == \E pt \in SelectPoints : SelectDown(pt) /\ Beat

CSelectMove == \E pt \in SelectPoints : SelectMove(pt) /\ Beat

CSelectUp == \E ev \in Events, pt \in SelectPoints : SelectUp(ev, pt) /\ Beat

CCut == Cut /\ Beat

CAnimationFrame == AnimationFrame /\ Beat

CEscape == Escape /\ Beat

NextSelect ==
  \/ CSetTool
  \/ CSelectDown
  \/ CSelectMove
  \/ CSelectUp
  \/ CCut
  \/ CAnimationFrame
  \/ CEscape

SpecSelect == InitSelect /\ [][NextSelect]_vars

----------------------------------------------------------------------------
(* Soundboard: specification                                               *)

\* A list saved by an earlier session: one board whose first slot holds a
\* clip and an emoji and no title.
SavedBoards ==
  << [id |-> DefaultId, name |-> "New Soundboard",
      slots |-> [j \in 1 .. NumSlots |->
                   IF j = 1
                   THEN [audioData |-> "s0", emoji |-> "e", title |-> Undefined]
                   ELSE EmptySlot]] >>

\* A later run: the stored list is parsed, nothing is fetched.
InitStored ==
  LET stored == StringifyBoards(SavedBoards)
  IN InitBoards(ParseStored(stored), [set |-> TRUE, boards |-> stored], FALSE)

InitBoard ==
  /\ InitCanvas(1, 1, Null)
  /\ (InitFirstRun \/ InitStored)

BAddNewBoard == AddNewBoard

BSelectBoard == \E i \in 1 .. Len(boards) : SelectBoard(i)

BStartEditTitle == StartEditTitle

BTypeName == \E name \in {"x"} : TypeName(name)

BUpdateBoardName == UpdateBoardName

BHandleSlotClick == \E index \in ClickSlots : HandleSlotClick(index)

BMicGranted == \E req \in pendingMic : MicGranted(req)

BMicDenied ==
  \E req \in pendingMic, stage \in {"getUserMedia", "MediaRecorder"} :
    MicDenied(req, stage)

BRecordingStopped ==
  \E n \in 1 .. Len(recorders), clip \in Clips : RecordingStopped(n, clip)

BRecordingStopFails == \E n \in 1 .. Len(recorders) : RecordingStopFails(n)

BAudioEnded == \E a \in liveAudios : AudioEnded(a)

BDeleteCurrentBoard == DeleteCurrentBoard

BHandleDelete == \E index \in ClickSlots : HandleDelete(index)

BHandleEmojiClick ==
  \E index \in ClickSlots, emoji \in EmojiAnswers : HandleEmojiClick(index, emoji)

BHandleTitleClick ==
  \E index \in ClickSlots, title \in TitleAnswers : HandleTitleClick(index, title)

BExportBoard == ExportBoard

BImportBoard ==
  \E file \in PickedFiles \cup {exported} : ImportBoard(file)

BImportLoad == \E req \in pendingImports : ImportLoad(req)

BReloadFromJson == \E response \in ServerFiles : ReloadFromJson(response)

BInitFetchDone == \E response \in ServerFiles : InitFetchDone(response)

NextBoard ==
  \/ BAddNewBoard
  \/ BSelectBoard
  \/ BStartEditTitle
  \/ BTypeName
  \/ BUpdateBoardName
  \/ BHandleSlotClick
  \/ BMicGranted
  \/ BMicDenied
  \/ BRecordingStopped
  \/ BRecordingStopFails
  \/ BAudioEnded
  \/ BDeleteCurrentBoard
  \/ BHandleDelete
  \/ BHandleEmojiClick
  \/ BHandleTitleClick
  \/ BExportBoard
  \/ BImportBoard
  \/ BImportLoad
  \/ BReloadFromJson
  \/ BInitFetchDone

SpecBoard == InitBoard /\ [][NextBoard]_vars

----------------------------------------------------------------------------
(* Soundboard: keyboard                                                    *)

\* Id of a board added in an earlier run (Date.now() of that run).
OlderId == -1

\* A stored list of two boards that both hold a sound in their first slot.
SavedTwoBoards ==
  SavedBoards \o
  << [id |-> OlderId, name |-> "Second",
      slots |-> [j \in 1 .. NumSlots |->
                   IF j = 1
                   THEN [audioData |-> "s1", emoji |-> Undefined,
                         title |-> Undefined]
                   ELSE EmptySlot]] >>

\* Key codes pressed: digits 1, 2 and 9, numpad 1 and 9, and the codes just
\* outside the two ranges (0, :, numpad 0, numpad *), and A.
KeyCodes == {48, 49, 50, 57, 58, 65, 96, 97, 105, 106}

InitKeys ==
  /\ InitCanvas(1, 1, Null)
  /\ \E list \in {SavedBoards, SavedTwoBoards} :
       LET stored == StringifyBoards(list)
       IN InitBoards(ParseStored(stored), [set |-> TRUE, boards |-> stored],
                     FALSE)

BKeyDown == \E keyCode \in KeyCodes : KeyDown(keyCode)

NextKeys ==
  \/ BKeyDown
  \/ BSelectBoard
  \/ BAddNewBoard
  \/ BHandleSlotClick
  \/ BMicGranted
  \/ BAudioEnded
  \/ BHandleDelete

SpecKeys == InitKeys /\ [][NextKeys]_vars

----------------------------------------------------------------------------
(* Soundboard: loading                                                     *)

\* What localStorage can hold under "soundboards" when the window opens:
\* nothing, a list saved by saveBoards, a text that is not JSON, or JSON that
\* is not a list ("{}").
StoredTexts ==
  { NoStorage,
    [set |-> TRUE, boards |-> StringifyBoards(SavedBoards)],
    [set |-> TRUE, text |-> "not json"],
    [set |-> TRUE, text |-> "{}"] }

\* The first render: the boards initialiser reads the stored text.  JSON.parse
\* and parsed.map are outside its try, so what they throw leaves the render.
Mount ==
  /\ mounted = "unmounted"
  /\ IF ~storage.set
     THEN /\ boards' = << DefaultBoard >>
          /\ initFetchPending' = TRUE
          /\ mounted' = "mounted"
     ELSE IF "boards" \in DOMAIN storage
     THEN /\ boards' = ParseStored(storage.boards)
          /\ mounted' = "mounted"
          /\ UNCHANGED initFetchPending
     ELSE /\ mounted' = "crashed"
          /\ UNCHANGED <<boards, initFetchPending>>
  /\ activeBoardId' = (IF Len(boards') > 0 THEN boards'[1].id ELSE DefaultId)
  /\ UNCHANGED <<pvars, storage, playbackStates, recvars, audvars,
                 pendingImports, exported, isEditingTitle, nextId, bsteps, obs>>

InitLoad ==
  /\ InitCanvas(1, 1, Null)
  /\ \E stored \in StoredTexts : BoardState(<< >>, stored, FALSE, "unmounted")

LImportBoard == \E file \in MalformedFiles : ImportBoard(file)

NextLoad ==
  \/ Mount
  \/ LImportBoard
  \/ NextBoard

SpecLoad == InitLoad /\ [][NextLoad]_vars

----------------------------------------------------------------------------
(* Claims on the history                                                   *)

\* C1: the history never holds more than 50 snapshots, and a push made with
\* the cursor on the last of 50 snapshots (no redo states left to remove)
\* drops the oldest snapshot and keeps the others in their order, followed by
\* the snapshot of the canvas.
C1_HistoryCapped ==
  /\ Len(history) <= HistoryCap
  /\ [][ /\ Len(history') <= HistoryCap
         /\ (/\ Len(history) = HistoryCap
             /\ historyIndex = HistoryCap - 1
             /\ history' # history)
            => /\ history' = Append(Tail(history), canvas')
               /\ historyIndex' = HistoryCap - 1 ]_vars

\* C1 witness: the history is full and its first snapshot is no longer the
\* initial canvas, so a push at 50 entries has evicted the oldest snapshot.
C1_Witness ==
  /\ Len(history) = HistoryCap
  /\ history[1] # Solid("T", cw, ch)


\* C2: after N >= 1 completed strokes that changed the canvas, N undos bring
\* the canvas back to what it was before the first of those strokes.
C2_UndoRestoresNthPrevious ==
  (probe.on /\ ~isDrawing /\ probe.n >= 1 /\ probe.u = probe.n)
    => canvas = probe.base

\* A pushing operation other than a pointer gesture: bucket fill, text,
\* clear, paste, image import.
NonGestureOperation ==
  \/ \E ev \in Events, pt \in Points(cw, ch) :
       selectedTool = "bucket" /\ PointerDown(ev, pt)
  \/ \E hasText \in BOOLEAN : TextCommit(hasText)
  \/ Clear
  \/ \E img \in PaintImages : ImportImage(img)
  \/ \E img \in PaintImages : Paste(img)

\* The snapshot at the cursor is the canvas and the cursor is on the last
\* entry, after the step.
SnapshotPushed ==
  /\ historyIndex' = Len(history') - 1
  /\ history'[historyIndex' + 1] = canvas'

\* C3: every completed drawing operation that changed the canvas (a gesture
\* ended by pointer-up, or a fill, text, clear, paste or import) leaves a
\* snapshot of the resulting canvas at the cursor, which is the last entry.
C3_CompletedOperationPushes ==
  [][ /\ (isDrawing /\ ~isDrawing' /\ probe.on /\ canvas' # probe.pre)
           => SnapshotPushed
      /\ (NonGestureOperation /\ canvas' # canvas)
           => SnapshotPushed ]_vars


\* Pixels one 4-neighbour step away from pixel k on a canvas of width w and
\* height h.
Neighbours(k, w, h) ==
  { j \in Pixels(w, h) :
      \/ (j = k - 1 /\ k % w # 0)
      \/ (j = k + 1 /\ j % w # 0)
      \/ j = k - w
      \/ j = k + w }

RECURSIVE Grow(_, _, _, _)
Grow(px, w, h, region) ==
  LET more == { j \in Pixels(w, h) :
                  /\ j \notin region
                  /\ \E k \in region : j \in Neighbours(k, w, h) /\ px[j] = px[k] }
  IN IF more = {} THEN region ELSE Grow(px, w, h, region \cup more)

\* The pixels connected to pt by 4-neighbour steps through pixels of the
\* colour of pt.
Region(px, w, h, pt) == Grow(px, w, h, {Idx(w, pt)})

\* C4: a bucket fill at a point whose colour differs from the pattern there and
\* whose region is smaller than the fill cap changes exactly the region of
\* that point to the pattern.
C4_FillChangesExactlyTheRegion ==
  [][ \A ev \in Events, pt \in Points(cw, ch) :
        LET pat == PatternData(patternRef, cw, ch)
            region == Region(canvas, cw, ch, pt)
        IN (/\ selectedTool = "bucket"
            /\ patternRef # Null
            /\ PointerDown(ev, pt)
            /\ canvas[Idx(cw, pt)] # pat[Idx(cw, pt)]
            /\ Cardinality(region) < MaxFillPixels(cw, ch))
           => canvas' = [k \in DOMAIN canvas |->
                           IF k \in region THEN pat[k] ELSE canvas[k]] ]_vars

----------------------------------------------------------------------------
(* Claims on the board list                                                *)

\* C5: the board list is never empty, whatever was added, deleted, renamed,
\* edited, imported or fetched.
C5_AtLeastOneBoard == Len(boards) >= 1

\* C6: every board of the list has exactly 9 slots.
C6_EveryBoardHasNineSlots ==
  \A i \in 1 .. Len(boards) : Len(boards[i].slots) = NumSlots

\* C7: when the load of a picked file that is the exported file is
\* delivered, the list becomes the boards that existed when the import was
\* started, unchanged, followed by one board per exported board, in order,
\* with the same name and the same slots (audioData, emoji and title equal
\* slot by slot).
C7_ExportImportRoundTrip ==
  [][ \A req \in pendingImports :
        (ImportLoad(req) /\ exported.kind = "boards" /\ req.file = exported)
          => LET src == obs.exportedFrom
                 n == Len(req.boards)
             IN /\ Len(boards') = n + Len(src)
                /\ SubSeq(boards', 1, n) = req.boards
                /\ \A k \in 1 .. Len(src) :
                     /\ boards'[n + k].name = src[k].name
                     /\ boards'[n + k].slots = src[k].slots ]_vars

\* C7 witness: the exported file was imported, and it held a slot with a
\* clip, with an emoji and without a title, now present in two boards.
C7_Witness ==
  /\ exported.kind = "boards"
  /\ obs.file = exported
  /\ \E k \in 1 .. Len(obs.exportedFrom) :
       /\ Truthy(obs.exportedFrom[k].slots[1].audioData)
       /\ obs.exportedFrom[k].slots[1].emoji # Undefined
       /\ obs.exportedFrom[k].slots[1].title = Undefined
       /\ \E a, b \in 1 .. Len(boards) :
            /\ a < b
            /\ boards[a].slots = obs.exportedFrom[k].slots
            /\ boards[b].slots = obs.exportedFrom[k].slots

\* Slot index of board id is being recorded: a recorder started for it is
\* recording.
BeingRecorded(id, index) ==
  \E n \in 1 .. Len(recorders) :
    /\ recorders[n].state = "recording"
    /\ recorders[n].slot = index
    /\ recorders[n].abid = id

\* C8: a click on a slot of the active board that has no audio and is not
\* being recorded calls startRecording for that index, starts no playback and
\* stops no recording; and when the microphone is granted the slot's
\* isRecording is true.
C8_EmptySlotClickStartsRecording ==
  /\ [][ \A index \in ClickSlots :
           (/\ HandleSlotClick(index)
            /\ ~Truthy(ActiveBoard.slots[index + 1].audioData)
            /\ ~BeingRecorded(activeBoardId, index))
             => /\ \E req \in pendingMic' \ pendingMic : req.slot = index
                /\ liveAudios' = liveAudios
                /\ playbackStates' = playbackStates
                /\ \A n \in 1 .. Len(recorders) :
                     recorders'[n].state = recorders[n].state ]_vars
  /\ [][ \A req \in pendingMic :
           MicGranted(req) => playbackStates'[req.slot].isRecording ]_vars

\* C9: when the stop callback stores a recording, the list and the storage
\* become the current list with the clip put in the recorded slot: nothing
\* that changed in the list since the recording was started is lost.
C9_StopCallbackKeepsChanges ==
  [][ \A n \in 1 .. Len(recorders), clip \in Clips :
        RecordingStopped(n, clip)
          => /\ boards' = RecordInto(boards, recorders[n].abid,
                                     recorders[n].slot, clip)
             /\ storage' = [set |-> TRUE, boards |-> StringifyBoards(boards')] ]_vars

\* C10: a startRecording whose microphone request fails changes no playback
\* state, board, stored list, active board or recorder, and a later click on
\* that slot, still empty and not shown as recording, calls startRecording
\* again.
C10_MicFailureLeavesStateUnchanged ==
  /\ [][ \A req \in pendingMic, stage \in {"getUserMedia", "MediaRecorder"} :
           MicDenied(req, stage)
             => UNCHANGED <<playbackStates, boards, storage, activeBoardId,
                            mediaRecorderRef, activeSlotRef, recorders>> ]_vars
  /\ [][ \A index \in {f.slot : f \in obs.failed} :
           (/\ HandleSlotClick(index)
            /\ ~Truthy(ActiveBoard.slots[index + 1].audioData)
            /\ ~playbackStates[index].isRecording)
             => \E req \in pendingMic' \ pendingMic : req.slot = index ]_vars

\* C10 witness: a slot whose request failed was clicked again and
\* startRecording was called for it, with no slot shown as recording.
C10_Witness ==
  /\ \E f \in obs.failed, req \in pendingMic : req.slot = f.slot /\ req.n >= f.at
  /\ \A i \in SlotIndices : ~playbackStates[i].isRecording
  /\ recorders = << >>

\* C11: when the stored boards text cannot be parsed, the window still opens
\* and shows the default board.
C11_CorruptStorageDegrades ==
  [][ (Mount /\ storage.set /\ "boards" \notin DOMAIN storage)
        => (mounted' = "mounted" /\ boards' = << DefaultBoard >>) ]_vars

\* A file that is not a well-formed board or list of boards.
Malformed(file) ==
  \/ file.kind \notin {"boards", "single"}
  \/ Len(file.boards) = 0
  \/ \E i \in 1 .. Len(file.boards) :
       \/ ~file.boards[i].hasSlots
       \/ \E j \in 1 .. Len(file.boards[i].slots) :
            "audioData" \notin DOMAIN file.boards[i].slots[j]

\* C12: the load of a picked file that is not JSON or not a well-formed
\* board or list of boards leaves the board list, the stored list and the
\* active board id as they are.
C12_MalformedImportChangesNothing ==
  [][ \A req \in pendingImports :
        (ImportLoad(req) /\ Malformed(req.file))
          => UNCHANGED <<boards, storage, activeBoardId>> ]_vars

\* C13: the cursor is -1 exactly while the history is empty and is otherwise
\* a position of the history; undo at position 0 and redo at the last
\* position change nothing.
C13_CursorValid ==
  /\ [](/\ (historyIndex = -1) <=> (Len(history) = 0)
        /\ historyIndex >= -1
        /\ historyIndex <= Len(history) - 1)
  /\ [][ (HUndo /\ historyIndex = 0)
           => UNCHANGED <<historyIndex, history, canvas>> ]_vars
  /\ [][ (HRedo /\ historyIndex = Len(history) - 1)
           => UNCHANGED <<historyIndex, history, canvas>> ]_vars

\* C13 witness: the history is full, its oldest snapshot was evicted, and the
\* cursor was brought back to position 0 by undos.
C13_Witness ==
  /\ Len(history) = HistoryCap
  /\ history[1] # Solid("T", cw, ch)
  /\ historyIndex = 0

\* C14: a history push removes the redo states: the snapshots up to the old
\* cursor stay, those after it are replaced by the one new last entry, and
\* the cursor is on it; from then on the cursor stays on the last entry, and
\* redo does nothing, until the next undo.
C14_PushDiscardsRedoStates ==
  /\ [][ (history' # history /\ Len(history) < HistoryCap)
           => /\ Len(history') = historyIndex + 2
              /\ SubSeq(history', 1, historyIndex + 1)
                   = SubSeq(history, 1, historyIndex + 1)
              /\ historyIndex' = Len(history') - 1 ]_vars
  /\ [][ (historyIndex' # historyIndex /\ ~Undo /\ ~Redo)
           => historyIndex' = Len(history') - 1 ]_vars
  /\ [][ (historyIndex = Len(history) - 1 /\ ~Undo)
           => historyIndex' = Len(history') - 1 ]_vars
  /\ [][ (Redo /\ historyIndex = Len(history) - 1) => UNCHANGED hvars ]_vars

\* C14 witness: a push that followed two undos discarded two redo states.
C14_Witness ==
  /\ probe.cut = 2
  /\ historyIndex = Len(history) - 1

\* An operation that always ends with a call of saveToHistory: clear, image
\* import, paste.
SaveToHistoryCalled ==
  \/ Clear
  \/ \E img \in PaintImages : ImportImage(img)
  \/ \E img \in PaintImages : Paste(img)

\* C15: saveToHistory pushes a snapshot exactly when the canvas differs, in
\* any component of any pixel, from the snapshot at the cursor.
C15_PushIffCanvasChanged ==
  [][ SaveToHistoryCalled
        => ((history' # history \/ historyIndex' # historyIndex)
              <=> canvas' # history[historyIndex + 1]) ]_vars

\* C16: while no pointer gesture is in progress (and no selection is active),
\* the pixels on the canvas are the history snapshot at the cursor.
C16_IdleCanvasIsSnapshotAtCursor ==
  ~isDrawing => canvas = history[historyIndex + 1]

\* Pixels of the selected rectangle that lie inside its dashed outline.
InsideOutline(sel) == RectPixels(sel, cw, ch) \ StrokeRectPixels(sel, cw, ch)

AllWhite(img, pts) == \A k \in pts : img[k] = "W"

\* C17: a cut with a selection fills the selected rectangle with white and
\* pushes a snapshot of that canvas; the rectangle then stays white across
\* the animation frames of the selection and when the selection is cleared
\* (the pixels under the dashed outline apart).
C17_CutRectangleStaysWhite ==
  /\ [][ (Cut /\ selection # NoSelection)
           => /\ AllWhite(canvas', RectPixels(selection, cw, ch))
              /\ history'[historyIndex' + 1] = canvas' ]_vars
  /\ [][ ( /\ selection # NoSelection
           /\ AllWhite(canvas, InsideOutline(selection))
           /\ (AnimationFrame \/ Escape
                 \/ \E pt \in SelectPoints :
                      SelectDown(pt) /\ selection' = NoSelection) )
           => AllWhite(canvas', InsideOutline(selection)) ]_vars

\* C18: at most one slot has isRecording true, and while a slot is recording
\* mediaRecorderRef is the recorder that was started for that slot (so that a
\* click on the slot stops that recorder).
C18_OneRecordingSlot ==
  /\ Cardinality({ i \in SlotIndices : playbackStates[i].isRecording }) <= 1
  /\ \A i \in SlotIndices :
       playbackStates[i].isRecording
         => /\ mediaRecorderRef # 0
            /\ recorders[mediaRecorderRef].slot = i

\* Every board of the list bs is in the list cs.
KeptIn(bs, cs) ==
  \A i \in 1 .. Len(bs) : \E j \in 1 .. Len(cs) : cs[j] = bs[i]

\* C19: on a first run, when the continuation of the initial fetch runs
\* after the user changed the board list, the boards of the changed list are
\* still in the list and in the storage afterwards.
C19_ChangesSurviveInitialFetch ==
  [][ (BInitFetchDone /\ boards # << DefaultBoard >>)
        => /\ KeptIn(boards, boards')
           /\ storage'.set
           /\ KeptIn(boards, ParseStored(storage'.boards)) ]_vars

\* C20: a slot of the active board whose audioData is null is not playing
\* and has no audio element registered for its index.
C20_EmptySlotIsSilent ==
  \A index \in SlotIndices :
    (/\ index < Len(ActiveBoard.slots)
     /\ ActiveBoard.slots[index + 1].audioData = Null)
      => /\ ~playbackStates[index].isPlaying
         /\ audioRefs[index] = 0

\* C21: after the effects of a render have run, a non-empty board list
\* holds the board whose id is activeBoardId; when a delete, a reload, a
\* fetch or a stored recording removes the active board, the first board of
\* the new list becomes active; deleteCurrentBoard removes the active board
\* and makes the first remaining board active.
C21_ActiveBoardInList ==
  /\ [](Len(boards) > 0 => HasBoard(boards, activeBoardId))
  /\ [][ ( /\ HasBoard(boards, activeBoardId)
           /\ Len(boards') > 0
           /\ ~HasBoard(boards', activeBoardId)
           /\ ~BImportLoad )
           => activeBoardId' = boards'[1].id ]_vars
  /\ [][ (BDeleteCurrentBoard /\ Len(boards) > 1)
           => /\ boards' = WithoutBoard(boards, activeBoardId)
              /\ activeBoardId' = boards'[1].id ]_vars

\* C21 witness: the board that was active at the start is gone from a
\* non-empty list of two or more boards, and the first board is active.
C21_Witness ==
  /\ ~initFetchPending
  /\ Len(boards) > 1
  /\ ~HasBoard(boards, DefaultId)
  /\ activeBoardId = boards[1].id

\* An audio element started for slot index of board id is playing.
PlayingIn(live, id, index) ==
  \E a \in live : a.index = index /\ a.abid = id

\* C22: a digit key n (49-57, numpad 97-105) on a slot n-1 of the active
\* board that has audio stops the slot's playback if it is playing and
\* starts it otherwise; on an empty slot, and for any other key, nothing
\* changes; no key press starts or stops a recording.
C22_DigitKeyTogglesPlayback ==
  [][ \A keyCode \in KeyCodes :
        KeyDown(keyCode) =>
          LET index == IF keyCode >= 97 THEN keyCode - 97 ELSE keyCode - 49
              digit == \/ (keyCode >= 97 /\ keyCode <= 105)
                       \/ (keyCode >= 49 /\ keyCode <= 57)
          IN /\ UNCHANGED <<recvars, stvars, activeBoardId>>
             /\ IF /\ digit
                   /\ index < Len(ActiveBoard.slots)
                   /\ Truthy(ActiveBoard.slots[index + 1].audioData)
                THEN PlayingIn(liveAudios', activeBoardId, index)
                       = ~PlayingIn(liveAudios, activeBoardId, index)
                ELSE UNCHANGED <<playbackStates, audvars>> ]_vars

=========================================================================
